---------------------------- MODULE Spec2Model ----------------------------
(***************************************************************************)
(* Firmware of the wireless LED prop.                                      *)
(*                                                                         *)
(* Spec: the receiver (pico_receiver_radiohead.ino, src/unnamed/part_000): *)
(* the boot sequence, the main loop (radio input, the two timeouts, the    *)
(* button gestures, the LED animations and the frame flush) and the button *)
(* interrupt handler, one pass of loop() per step.                         *)
(* BootSpec: setup() of the receiver with the display, the EEPROM and      *)
(* handleSetupMode in detail.                                              *)
(* TxSpec: the main loop of the remote                                     *)
(* (src/Arduino_Uno_R3_Remote_RadioHead_20250901.ino).                     *)
(* HsSpec: button_isr and step 3 of the receiver's loop(), interleaved     *)
(* statement by statement.                                                 *)
(* Each specification moves its own variables and leaves the others.       *)
(*                                                                         *)
(* Time.  The firmware stores timestamps of millis() and only ever reads   *)
(* them as differences millis() - t compared with a threshold.  The model  *)
(* stores each difference itself (since...), saturated one past the        *)
(* largest threshold it is compared with, so every comparison of the       *)
(* source is decided exactly and runs of any length stay in a finite state *)
(* space.  One model time unit is not one millisecond: the thresholds are  *)
(* scaled down and keep the order of the source,                           *)
(*   16 ms < 200 ms < 3000 ms < 5000 ms < 1800000 ms.                      *)
(* The strip length and the width of animationStep are scaled down in the  *)
(* same way; colours, fade amounts and sequence numbers are the source's.  *)
(***************************************************************************)
EXTENDS Integers, Sequences, FiniteSets

(* ------------------------- scaled program sizes ------------------------ *)
\* #define NUM_LEDS 120 (part_000:38)
NUM_LEDS == 2
\* the animation pacing interval, 16 ms (part_000:129)
FRAME_MS == 1
\* the re-arm window of button_isr, 200 ms (part_000:94)
DEBOUNCE_MS == 1
\* #define PACKET_TIMEOUT_MS 3000 (part_000:73)
PACKET_TIMEOUT_MS == 2
\* the long-hold threshold, 5000 ms (part_000:398)
LONG_HOLD_MS == 3
\* #define STRIP_TIMEOUT_MS 1800000UL (part_000:74)
STRIP_TIMEOUT_MS == 4
\* millis() when loop() first runs: delay(1000) + delay(100) + 2 * delay(10)
\* in setup() (part_000:295), more than the re-arm window and less than the
\* packet timeout
BOOT_MS == 2
\* the most time that passes between two steps of the model
MaxStep == 1

\* full brightness of a colour channel (part_000:143)
FULL == 255
\* the fade amounts of Chase, Sparkle and Cylon (part_000:142, 165, 174)
CHASE_FADE == 200
SPARKLE_FADE == 100
CYLON_FADE == 40
\* the hue wheel of ColorHSV and the hue added per frame (part_000:134)
HUE_RANGE == 65536
HUE_PER_STEP == 256

\* the largest sequenceId with an animation of its own (part_000:188)
MAX_SEQUENCE == 5
\* a sequenceId is a uint8_t (part_000:60)
UINT8_MAX == 255

\* animationStep is a uint16_t (part_000:78): it wraps at 2^16, scaled to a
\* modulus that still exceeds 2 * NUM_LEDS
Uint16Mod == 2 * NUM_LEDS + 2

\* the identifiers a prop may have (part_000:105, 262)
MIN_PROP_ID == 1
MAX_PROP_ID == 18
\* the hold threshold of handleSetupMode, 3000 ms (part_000:268), scaled
SETUP_HOLD_MS == 3
\* the bytes EEPROM cell 0 may hold at power-on: erased, out of range at
\* either end, and identifiers inside the range and at its end
InitialEeprom == {0, 6, MAX_PROP_ID, MAX_PROP_ID + 1, UINT8_MAX}

\* the remote: DEBOUNCE_DELAY_MS 50 and HEARTBEAT_INTERVAL 500 (remote:33,
\* 35), scaled, order kept
TX_DEBOUNCE_MS == 1
HEARTBEAT_INTERVAL == 2

\* the sequenceId values a delivered packet may carry: every animation, off,
\* and a value with no animation
SequenceIds == (0 .. MAX_SEQUENCE) \cup {UINT8_MAX}

\* what one poll of the radio yields: nothing, or a packet with a sequenceId
Packets == {<<FALSE, 0>>} \cup {<<TRUE, id>> : id \in SequenceIds}

Pixels == 1 .. NUM_LEDS

Min(a, b) == IF a < b THEN a ELSE b

VARIABLES
    phase,   \* "boot" | "setup" | "halt" | "loop": where the firmware is
    rx,      \* the receiver's globals, the strip buffer and the LEDs
    pin,     \* level of CONFIG_BUTTON_PIN: "LOW" (pressed) or "HIGH"
    ev,      \* what the last step was and what the last loop() pass did
    obs,     \* an observer's clocks and counts, read by no action
    su,      \* the boot of the receiver and its setup sub-mode, in detail
    tx,      \* the remote
    hs       \* button_isr and step 3 of loop(), statement by statement

vars == <<phase, rx, pin, ev, obs, su, tx, hs>>

\* the variables of the receiver's main loop
mainVars == <<phase, rx, pin, ev, obs>>


(* ------------------------------ the strip ------------------------------ *)
\* a colour is <<r, g, b>>; strip.clear() leaves every pixel black
Black == <<0, 0, 0>>
Red   == <<FULL, 0, 0>>
Blue  == <<0, 0, FULL>>
White == <<FULL, FULL, FULL>>
Blank == [i \in Pixels |-> Black]

\* strip.setPixelColor(i, c), i counted from 0: the library ignores an index
\* outside the strip
SetPixel(px, i, c) ==
    IF i \in 0 .. NUM_LEDS - 1 THEN [px EXCEPT ![i + 1] = c] ELSE px

\* one channel of fadeAll: (c * (255 - amount)) >> 8
FadeChannel(c, amount) == (c * (FULL - amount)) \div (FULL + 1)

\* strip.ColorHSV(hue) at full saturation and value, as the NeoPixel library
\* computes it: the 16-bit hue is mapped to 0 .. 1530 and split in three
\* ramps (gamma32 then corrects each channel and is left out: it changes no
\* channel from or to zero)
ColorHSV(hue16) ==
    LET hue == ((hue16 % HUE_RANGE) * 1530 + 32768) \div 65536
    IN  IF hue < 510
        THEN IF hue < 255 THEN <<255, hue, 0>> ELSE <<510 - hue, 255, 0>>
        ELSE IF hue < 1020
        THEN IF hue < 765 THEN <<0, 255, hue - 510>> ELSE <<0, 1020 - hue, 255>>
        ELSE IF hue < 1530
        THEN IF hue < 1275 THEN <<hue - 1020, 0, 255>> ELSE <<255, 0, 1530 - hue>>
        ELSE <<255, 0, 0>>

\* the frame animationRainbow writes for a value of animationStep
RainbowFrame(step) ==
    [i \in Pixels |->
        ColorHSV(((i - 1) * 65536) \div NUM_LEDS + step * HUE_PER_STEP)]

(* ------------------------- frame change tracking ----------------------- *)
markDirty(s) == [s EXCEPT !.frameDirty = TRUE, !.stripIsOff = FALSE]

markAllOff(s) == [s EXCEPT !.stripIsOff = TRUE, !.frameDirty = TRUE]

\* showIfDirty with the flag left set after the flush
showIfDirty_NoReset(s) ==
    IF s.frameDirty
    THEN [s EXCEPT !.leds = s.pixels, !.showCalls = @ + 1]
    ELSE s

\* strip.show() copies the buffer to the LEDs; showCalls counts the calls
showIfDirty(s) ==
    IF s.frameDirty
    THEN [s EXCEPT !.leds = s.pixels, !.showCalls = @ + 1, !.frameDirty = FALSE]
    ELSE s

(* ------------------------------ animations ----------------------------- *)
\* animationOff without the strip.clear()
animationOff_NoClear(s) ==
    IF ~s.stripIsOff THEN markAllOff(s) ELSE s

animationOff(s) ==
    IF ~s.stripIsOff THEN markAllOff([s EXCEPT !.pixels = Blank]) ELSE s

fadeAll(s, amount) ==
    markDirty([s EXCEPT !.pixels =
        [i \in Pixels |-> <<FadeChannel(@[i][1], amount),
                            FadeChannel(@[i][2], amount),
                            FadeChannel(@[i][3], amount)>>]])

animationRainbow(s) ==
    IF s.sinceAnim < FRAME_MS THEN s
    ELSE LET step == (s.animationStep + 1) % Uint16Mod
         IN  markDirty([s EXCEPT !.sinceAnim = 0,
                                 !.animationStep = step,
                                 !.pixels = RainbowFrame(step)])

animationChase(s) ==
    IF s.sinceAnim < FRAME_MS THEN s
    ELSE LET f == fadeAll([s EXCEPT !.sinceAnim = 0], CHASE_FADE)
         IN  markDirty([f EXCEPT
                 !.pixels = SetPixel(@, s.animationStep, Red),
                 !.animationStep = (s.animationStep + 1) % NUM_LEDS])

animationWipe(s) ==
    IF s.sinceAnim < FRAME_MS THEN s
    ELSE LET n    == NUM_LEDS
             a    == s.animationStep
             px   == IF a < n THEN SetPixel(s.pixels, a, Blue)
                     ELSE IF a < 2 * n THEN SetPixel(s.pixels, a - n, Black)
                     ELSE s.pixels
             next == (a + 1) % Uint16Mod
         IN  markDirty([s EXCEPT
                 !.sinceAnim = 0,
                 !.pixels = px,
                 !.animationStep = IF next >= 2 * n THEN 0 ELSE next])

\* rnd is the value of random(strip.numPixels())
animationSparkle(s, rnd) ==
    IF s.sinceAnim < FRAME_MS THEN s
    ELSE LET f == fadeAll([s EXCEPT !.sinceAnim = 0], SPARKLE_FADE)
         IN  markDirty([f EXCEPT !.pixels = SetPixel(@, rnd, White)])

\* pos and dir are the function's statics
animationCylon(s) ==
    IF s.sinceAnim < FRAME_MS THEN s
    ELSE LET f   == fadeAll([s EXCEPT !.sinceAnim = 0], CYLON_FADE)
             pos == s.pos + s.dir
         IN  markDirty([f EXCEPT
                 !.pixels = SetPixel(@, s.pos, Red),
                 !.pos = pos,
                 !.dir = IF pos <= 0 \/ pos >= NUM_LEDS - 1 THEN -s.dir ELSE s.dir])

runSequence(s, rnd) ==
    CASE s.currentSequence = 0 -> animationOff(s)
      [] s.currentSequence = 1 -> animationRainbow(s)
      [] s.currentSequence = 2 -> animationChase(s)
      [] s.currentSequence = 3 -> animationWipe(s)
      [] s.currentSequence = 4 -> animationSparkle(s, rnd)
      [] s.currentSequence = 5 -> animationCylon(s)
      [] OTHER -> animationOff(s)

\* the animation runSequence calls for a sequence
SequenceName(seq) ==
    CASE seq = 1 -> "Rainbow"
      [] seq = 2 -> "Chase"
      [] seq = 3 -> "Wipe"
      [] seq = 4 -> "Sparkle"
      [] seq = 5 -> "Cylon"
      [] OTHER -> "Off"

(* ------------------------------ main loop ------------------------------ *)
\* HandleRadio with the strip timer restarted by every non-zero packet
HandleRadio_RestartOnEveryPacket(s, avail, id) ==
    IF ~avail THEN s
    ELSE LET r == [s EXCEPT !.sincePacket = 0,
                            !.sinceActive = IF id > 0 THEN 0 ELSE @]
         IN  IF r.currentSequence # id
             THEN markDirty([r EXCEPT !.currentSequence = id,
                                      !.animationStep = 0,
                                      !.pixels = Blank])
             ELSE r

\* HandleRadio with animationStep kept when the sequence changes
HandleRadio_KeepStep(s, avail, id) ==
    IF ~avail THEN s
    ELSE LET r == [s EXCEPT !.sincePacket = 0]
         IN  IF r.currentSequence # id
             THEN LET c == markDirty([r EXCEPT !.currentSequence = id,
                                               !.pixels = Blank])
                  IN  IF id > 0 THEN [c EXCEPT !.sinceActive = 0] ELSE c
             ELSE r

\* HandleRadio with animationStep reset by every packet
HandleRadio_ResetOnEveryPacket(s, avail, id) ==
    IF ~avail THEN s
    ELSE LET r == [s EXCEPT !.sincePacket = 0, !.animationStep = 0]
         IN  IF r.currentSequence # id
             THEN LET c == markDirty([r EXCEPT !.currentSequence = id,
                                               !.pixels = Blank])
                  IN  IF id > 0 THEN [c EXCEPT !.sinceActive = 0] ELSE c
             ELSE r

\* step 1 of loop(): avail is driver.available() && driver.recv(), id the
\* sequenceId of the packet received
HandleRadio(s, avail, id) ==
    IF ~avail THEN s
    ELSE LET r == [s EXCEPT !.sincePacket = 0]
         IN  IF r.currentSequence # id
             THEN LET c == markDirty([r EXCEPT !.currentSequence = id,
                                               !.animationStep = 0,
                                               !.pixels = Blank])
                  IN  IF id > 0 THEN [c EXCEPT !.sinceActive = 0] ELSE c
             ELSE r

\* NoSignalFires with >= for >
NoSignalFires_AtTimeout(s) ==
    s.sincePacket >= PACKET_TIMEOUT_MS /\ s.currentSequence # 0

\* step 2 of loop(), first rule: no packet for more than PACKET_TIMEOUT_MS
NoSignalFires(s) ==
    s.sincePacket > PACKET_TIMEOUT_MS /\ s.currentSequence # 0

NoSignalTimeout(s) ==
    IF NoSignalFires(s)
    THEN [s EXCEPT !.currentSequence = 0, !.animationStep = 0]
    ELSE s

\* step 2 of loop(), second rule: the strip lit for more than STRIP_TIMEOUT_MS
StripTimeoutFires(s) ==
    s.currentSequence # 0 /\ s.sinceActive > STRIP_TIMEOUT_MS

StripTimeout(s) ==
    IF StripTimeoutFires(s)
    THEN [s EXCEPT !.currentSequence = 0, !.animationStep = 0]
    ELSE s

\* the branch step 3 of loop() takes, by the name the specification gives it;
\* p is digitalRead(CONFIG_BUTTON_PIN)
Gesture(s, p) ==
    IF ~s.buttonPressFlag THEN "None"
    ELSE IF p = "LOW"
         THEN IF ~s.inDiagnosticMode /\ s.sincePress >= LONG_HOLD_MS
              THEN "LongHoldConfirmed" ELSE "None"
         ELSE "ShortPress"

\* HandleButton with inTestMode left as it is by the long hold
HandleButton_KeepTest(s, p) ==
    IF ~s.buttonPressFlag THEN s
    ELSE IF p = "LOW"
         THEN IF ~s.inDiagnosticMode /\ s.sincePress >= LONG_HOLD_MS
              THEN [s EXCEPT !.inDiagnosticMode = TRUE,
                             !.currentSequence = 0,
                             !.buttonPressFlag = FALSE]
              ELSE s
         ELSE LET t == IF s.inDiagnosticMode
                       THEN [s EXCEPT !.inDiagnosticMode = FALSE]
                       ELSE [s EXCEPT !.inTestMode = ~@,
                                      !.currentSequence = 0]
              IN  [t EXCEPT !.animationStep = 0, !.buttonPressFlag = FALSE]

\* HandleButton with the flag left set by the long hold
HandleButton_NoConsume(s, p) ==
    IF ~s.buttonPressFlag THEN s
    ELSE IF p = "LOW"
         THEN IF ~s.inDiagnosticMode /\ s.sincePress >= LONG_HOLD_MS
              THEN [s EXCEPT !.inDiagnosticMode = TRUE,
                             !.inTestMode = FALSE,
                             !.currentSequence = 0]
              ELSE s
         ELSE LET t == IF s.inDiagnosticMode
                       THEN [s EXCEPT !.inDiagnosticMode = FALSE]
                       ELSE [s EXCEPT !.inTestMode = ~@,
                                      !.currentSequence = 0]
              IN  [t EXCEPT !.animationStep = 0, !.buttonPressFlag = FALSE]

\* HandleButton with the release toggling Test in Diagnostic too
HandleButton_ToggleFromDiagnostic(s, p) ==
    IF ~s.buttonPressFlag THEN s
    ELSE IF p = "LOW"
         THEN IF ~s.inDiagnosticMode /\ s.sincePress >= LONG_HOLD_MS
              THEN [s EXCEPT !.inDiagnosticMode = TRUE,
                             !.inTestMode = FALSE,
                             !.currentSequence = 0,
                             !.buttonPressFlag = FALSE]
              ELSE s
         ELSE [s EXCEPT !.inDiagnosticMode = FALSE,
                        !.inTestMode = ~@,
                        !.currentSequence = 0,
                        !.animationStep = 0,
                        !.buttonPressFlag = FALSE]

\* step 3 of loop()
HandleButton(s, p) ==
    IF ~s.buttonPressFlag THEN s
    ELSE IF p = "LOW"
         THEN IF ~s.inDiagnosticMode /\ s.sincePress >= LONG_HOLD_MS
              THEN [s EXCEPT !.inDiagnosticMode = TRUE,
                             !.inTestMode = FALSE,
                             !.currentSequence = 0,
                             !.buttonPressFlag = FALSE]
              ELSE s
         ELSE LET t == IF s.inDiagnosticMode
                       THEN [s EXCEPT !.inDiagnosticMode = FALSE]
                       ELSE [s EXCEPT !.inTestMode = ~@,
                                      !.currentSequence = 0]
              IN  [t EXCEPT !.animationStep = 0, !.buttonPressFlag = FALSE]

\* the operating mode, in the order updateDisplay() tests the flags
Mode(s) ==
    IF s.inDiagnosticMode THEN "Diagnostic"
    ELSE IF s.inSetupMode THEN "Setup"
    ELSE IF s.inTestMode THEN "Test"
    ELSE "Ready"

\* the animation step 4 of loop() calls
Selected(s) ==
    IF s.inDiagnosticMode THEN "Off"
    ELSE IF s.inTestMode THEN "Rainbow"
    ELSE SequenceName(s.currentSequence)

\* step 4 of loop(), before the flush
RunLeds(s, rnd) ==
    IF s.inDiagnosticMode THEN animationOff(s)
    ELSE IF s.inTestMode THEN animationRainbow(s)
    ELSE runSequence(s, rnd)

\* the values random(strip.numPixels()) may return where step 4 reads one
RandomValues(s) ==
    IF Selected(s) = "Sparkle" /\ s.sinceAnim >= FRAME_MS
    THEN 0 .. NUM_LEDS - 1 ELSE {0}

\* the receiver after steps 1 and 2 of loop()
AfterTimeouts(s, avail, id) ==
    StripTimeout(NoSignalTimeout(HandleRadio(s, avail, id)))

(* --------------------------- button interrupt -------------------------- *)
\* sinceIsr is millis() - last_interrupt_time, sincePress is
\* millis() - buttonPressTime
button_isr(s) ==
    LET a == IF s.sinceIsr > DEBOUNCE_MS
             THEN [s EXCEPT !.buttonPressFlag = TRUE, !.sincePress = 0]
             ELSE s
    IN  [a EXCEPT !.sinceIsr = 0]

(* --------------------------------- time -------------------------------- *)
\* millis() grows by d: every stored difference grows by d, up to one past
\* the threshold the source compares it with
Elapse(s, d) ==
    [s EXCEPT !.sincePacket = Min(@ + d, PACKET_TIMEOUT_MS + 1),
              !.sinceActive = Min(@ + d, STRIP_TIMEOUT_MS + 1),
              !.sincePress  = Min(@ + d, LONG_HOLD_MS),
              !.sinceIsr    = Min(@ + d, DEBOUNCE_MS + 1),
              !.sinceAnim   = Min(@ + d, FRAME_MS)]

(* -------------------- boot and the setup sub-mode ---------------------- *)
\* su holds the boot of the receiver in detail: setup() up to the start of
\* loop(), the EEPROM cell 0 and the locals of handleSetupMode.  pc is
\* "reset" (power-on or restart), "poll" (inside the while loop of
\* handleSetupMode), "armed" (still inside it, watchdog_reboot called),
\* "loop" (setup() returned) or "halt" (while (true)).  sinceStart is
\* millis() - pressStartTime.  did, inside, taps, saved and failed are
\* observers: what the last pass of the while loop did, whether the button
\* went down inside handleSetupMode, the releases of such presses since the
\* last pass (2: two or more), the value the last hold wrote (0: none) and
\* whether an initialisation of this boot has failed.
SuInit(e, p) ==
    [ pc            |-> "reset",
      pin           |-> p,
      eeprom        |-> e,
      propID        |-> 1,
      inSetupMode   |-> FALSE,
      tempPropID    |-> 1,
      sinceStart    |-> 0,
      lastIsPressed |-> FALSE,
      did           |-> "none",
      inside        |-> FALSE,
      taps          |-> 0,
      saved         |-> 0,
      failed        |-> FALSE ]

\* savePropID: EEPROM.write(0, id); EEPROM.commit()
savePropID(s, id) == [s EXCEPT !.eeprom = id]

\* loadPropID: the stored byte, or 1 (written back) when it is out of range
loadPropID(s) ==
    IF s.eeprom < MIN_PROP_ID \/ s.eeprom > MAX_PROP_ID
    THEN [savePropID(s, MIN_PROP_ID) EXCEPT !.propID = MIN_PROP_ID]
    ELSE [s EXCEPT !.propID = s.eeprom]

\* tempPropID++; if (tempPropID > 18) tempPropID = 1
NextPropID(id) == IF id + 1 > MAX_PROP_ID THEN MIN_PROP_ID ELSE id + 1

\* setupModePass without the wraparound
setupModePass_NoWrap(s) ==
    LET isPressed == s.pin = "LOW"
        a == IF isPressed /\ ~s.lastIsPressed
             THEN [s EXCEPT !.sinceStart = 0, !.did = "press"]
             ELSE [s EXCEPT !.did = "none"]
        b == IF ~isPressed /\ s.lastIsPressed
             THEN [a EXCEPT !.tempPropID = @ + 1, !.did = "tap"]
             ELSE a
        c == IF isPressed /\ b.sinceStart > SETUP_HOLD_MS
             THEN [savePropID([b EXCEPT !.propID = b.tempPropID],
                              b.tempPropID)
                     EXCEPT !.pc = "armed", !.did = "save",
                            !.saved = b.tempPropID]
             ELSE b
    IN  [c EXCEPT !.lastIsPressed = isPressed]

\* one pass of the while loop of handleSetupMode, at one value of millis()
setupModePass(s) ==
    LET isPressed == s.pin = "LOW"
        a == IF isPressed /\ ~s.lastIsPressed
             THEN [s EXCEPT !.sinceStart = 0, !.did = "press"]
             ELSE [s EXCEPT !.did = "none"]
        b == IF ~isPressed /\ s.lastIsPressed
             THEN [a EXCEPT !.tempPropID = NextPropID(@), !.did = "tap"]
             ELSE a
        c == IF isPressed /\ b.sinceStart > SETUP_HOLD_MS
             THEN [savePropID([b EXCEPT !.propID = b.tempPropID],
                              b.tempPropID)
                     EXCEPT !.pc = "armed", !.did = "save",
                            !.saved = b.tempPropID]
             ELSE b
    IN  [c EXCEPT !.lastIsPressed = isPressed]

(* ----------------------------- transmitter ----------------------------- *)
\* tx holds the remote (Arduino_Uno_R3_Remote_RadioHead_20250901.ino) after
\* its setup(): currentSequence, the two debounced buttons (the pin, the
\* debounced state, the last reading and millis() - last...DebounceTime) and
\* sinceHeartbeat, millis() - lastHeartbeatTime.  packetCounter only numbers
\* the packets and is left out.  tick, cyclePressed, offPressed and sent
\* report the last pass of loop(): sent lists the packets it handed to
\* driver.send, each as <<cause, sequenceId>>.
TxButtonInit(p) == [ pin |-> p, state |-> "HIGH", last |-> "HIGH",
                     since |-> TX_DEBOUNCE_MS + 1 ]

TxInit(c, o) ==
    [ currentSequence |-> 0,
      cycle           |-> TxButtonInit(c),
      off             |-> TxButtonInit(o),
      sinceHeartbeat  |-> HEARTBEAT_INTERVAL,
      tick            |-> FALSE,
      cyclePressed    |-> FALSE,
      offPressed      |-> FALSE,
      sent            |-> <<>> ]

\* transmitSequence(): one packet with the current sequence
transmitSequence(s, cause) ==
    [s EXCEPT !.sent = Append(@, <<cause, s.currentSequence>>)]

\* the body shared by checkCycleButtonPress and checkOffButtonPress on the
\* button b: the button afterwards
Debounce(b) ==
    LET reading == b.pin
        since   == IF reading # b.last THEN 0 ELSE b.since
    IN  [b EXCEPT !.since = since,
                  !.state = IF since > TX_DEBOUNCE_MS THEN reading ELSE @,
                  !.last  = reading]

\* the value checkCycleButtonPress / checkOffButtonPress returns on b
DebouncedPress(b) ==
    LET d == Debounce(b) IN d.state # b.state /\ d.state = "LOW"

checkCycleButtonPress(s) == DebouncedPress(s.cycle)

checkOffButtonPress(s) == DebouncedPress(s.off)

\* loop() of the remote, lines 192-204: the Cycle button
TxHandleCycle(s) ==
    LET d == [s EXCEPT !.cycle = Debounce(@)]
    IN  IF checkCycleButtonPress(s)
        THEN LET n == [d EXCEPT !.currentSequence =
                          IF @ + 1 > MAX_SEQUENCE THEN 0 ELSE @ + 1,
                                !.cyclePressed = TRUE]
             IN  [transmitSequence(n, "cycle") EXCEPT !.sinceHeartbeat = 0]
        ELSE d

\* loop() of the remote, lines 206-216: the Off button
TxHandleOff(s) ==
    LET d == [s EXCEPT !.off = Debounce(@)]
    IN  IF checkOffButtonPress(s)
        THEN LET p == [d EXCEPT !.offPressed = TRUE]
             IN  IF p.currentSequence # 0
                 THEN [transmitSequence([p EXCEPT !.currentSequence = 0],
                                        "off")
                         EXCEPT !.sinceHeartbeat = 0]
                 ELSE p
        ELSE d

\* loop() of the remote, lines 219-223: the heartbeat
TxHeartbeat(s) ==
    IF s.sinceHeartbeat >= HEARTBEAT_INTERVAL
    THEN transmitSequence([s EXCEPT !.sinceHeartbeat = 0], "heartbeat")
    ELSE s

TxElapse(s, d) ==
    [s EXCEPT !.cycle.since    = Min(@ + d, TX_DEBOUNCE_MS + 1),
              !.off.since      = Min(@ + d, TX_DEBOUNCE_MS + 1),
              !.sinceHeartbeat = Min(@ + d, HEARTBEAT_INTERVAL)]

(* ------------------- the interrupt and step 3 of loop() ---------------- *)
\* hs holds what button_isr and step 3 of loop() share, statement by
\* statement: pc is the statement loop() executes next ("L395" the test of
\* buttonPressFlag, "L397" the digitalRead, "L398" the long-hold branch,
\* "L404" the release branch, "rest" every other line of loop()), ipc the
\* statement button_isr executes next ("idle" outside it, "I93", "I95",
\* "I96", "I98").  sincePress and sinceIsr are as in rx.  currentSequence and
\* animationStep, which step 3 only writes, are left out.  stampFresh,
\* unseen, lost and gesture are observers: buttonPressTime was written by
\* the press that last set the flag; the flag was set after loop() last
\* tested it; loop() has cleared a flag in that condition; the gesture of
\* the last pass through step 3.
HsInit ==
    [ pc               |-> "rest",
      ipc              |-> "idle",
      pin              |-> "HIGH",
      buttonPressFlag  |-> FALSE,
      sincePress       |-> LONG_HOLD_MS,
      sinceIsr         |-> DEBOUNCE_MS + 1,
      inDiagnosticMode |-> FALSE,
      inTestMode       |-> FALSE,
      stampFresh       |-> TRUE,
      unseen           |-> FALSE,
      lost             |-> FALSE,
      gesture          |-> "None" ]

\* button_isr, lines 93-94: interrupt_time = millis() and the re-arm test
IsrTest(h) ==
    [h EXCEPT !.ipc = IF h.sinceIsr > DEBOUNCE_MS THEN "I95" ELSE "I98"]

\* button_isr, line 95: buttonPressFlag = true
IsrFlag(h) ==
    [h EXCEPT !.buttonPressFlag = TRUE, !.ipc = "I96",
              !.stampFresh = FALSE, !.unseen = TRUE]

\* IsrStamp with buttonPressTime left as it is
IsrStamp_Skip(h) ==
    [h EXCEPT !.ipc = "I98"]

\* button_isr, line 96: buttonPressTime = interrupt_time
IsrStamp(h) ==
    [h EXCEPT !.sincePress = 0, !.ipc = "I98", !.stampFresh = TRUE]

\* button_isr, line 98: last_interrupt_time = interrupt_time, and the return
IsrExit(h) ==
    [h EXCEPT !.sinceIsr = 0, !.ipc = "idle"]

\* loop(), line 395: if (buttonPressFlag)
LoopTestFlag(h) ==
    IF h.buttonPressFlag
    THEN [h EXCEPT !.pc = "L397", !.unseen = FALSE, !.gesture = "None"]
    ELSE [h EXCEPT !.pc = "rest", !.gesture = "None"]

\* loop(), line 397: if (digitalRead(CONFIG_BUTTON_PIN) == LOW)
LoopReadPin(h) ==
    [h EXCEPT !.pc = IF h.pin = "LOW" THEN "L398" ELSE "L404"]

\* loop(), lines 398-402
LoopLongHold(h) ==
    IF ~h.inDiagnosticMode /\ h.sincePress >= LONG_HOLD_MS
    THEN [h EXCEPT !.inDiagnosticMode = TRUE, !.inTestMode = FALSE,
                   !.buttonPressFlag = FALSE, !.pc = "rest",
                   !.gesture = "LongHoldConfirmed",
                   !.lost = @ \/ h.unseen, !.unseen = FALSE]
    ELSE [h EXCEPT !.pc = "rest"]

\* loop(), lines 404-411
LoopRelease(h) ==
    LET t == IF h.inDiagnosticMode
             THEN [h EXCEPT !.inDiagnosticMode = FALSE]
             ELSE [h EXCEPT !.inTestMode = ~@]
    IN  [t EXCEPT !.buttonPressFlag = FALSE, !.pc = "rest",
                  !.gesture = "ShortPress",
                  !.lost = @ \/ h.unseen, !.unseen = FALSE]

HsElapse(h, d) ==
    [h EXCEPT !.sincePress = Min(@ + d, LONG_HOLD_MS),
              !.sinceIsr   = Min(@ + d, DEBOUNCE_MS + 1)]

(* ------------------------------ the state ------------------------------ *)
\* the globals as the C++ initialisers leave them, at millis() = 0
RxInit ==
    [ inTestMode       |-> FALSE,
      inSetupMode      |-> FALSE,
      inDiagnosticMode |-> FALSE,
      currentSequence  |-> 0,
      buttonPressFlag  |-> FALSE,
      sincePress       |-> 0,
      sincePacket      |-> 0,
      sinceActive      |-> 0,
      sinceAnim        |-> 0,
      sinceIsr         |-> 0,
      animationStep    |-> 0,
      frameDirty       |-> FALSE,
      stripIsOff       |-> TRUE,
      pos              |-> 0,
      dir              |-> 1,
      pixels           |-> Blank,
      leds             |-> Blank,
      showCalls        |-> 0 ]

\* nothing to report: the last step was not a pass of loop()
EvNone ==
    [ tick     |-> FALSE,
      pkt      |-> <<FALSE, 0>>,
      from     |-> "None",
      noSignal |-> 0,
      cut      |-> 0,
      gesture  |-> "None",
      selected |-> "None",
      dirty    |-> FALSE,
      shows    |-> 0 ]

\* the observer: litFor, how long currentSequence has held its present
\* non-zero value (0 while it is 0); heldFor, how long the button has been
\* down (0 while it is up); accepted, whether the last falling edge set
\* buttonPressFlag; gestures, the gestures handled since that edge
ObsInit ==
    [ litFor |-> 0, heldFor |-> 0, accepted |-> FALSE, gestures |-> 0 ]

ObsElapse(o, s, p, d) ==
    [o EXCEPT !.litFor  = IF s.currentSequence # 0
                          THEN Min(@ + d, STRIP_TIMEOUT_MS + 1) ELSE 0,
              !.heldFor = IF p = "LOW" THEN Min(@ + d, LONG_HOLD_MS) ELSE 0]

ObsLoop(o, before, after, gesture) ==
    [o EXCEPT !.litFor   = IF after.currentSequence = before.currentSequence
                           THEN @ ELSE 0,
              !.gestures = IF gesture = "None" THEN @ ELSE Min(@ + 1, 2)]

Init ==
    /\ phase = "boot"
    /\ rx = RxInit
    /\ pin \in {"LOW", "HIGH"}
    /\ ev = EvNone
    /\ obs = ObsInit
    /\ su = SuInit(MIN_PROP_ID, "HIGH")
    /\ tx = TxInit("HIGH", "HIGH")
    /\ hs = HsInit

(* ------------------------------- actions ------------------------------- *)
\* setup(): the strip is cleared and flushed, then the button is read; held,
\* it enters handleSetupMode; radio failures halt; otherwise loop() starts
setup ==
    /\ phase = "boot"
    /\ \E radioOk, freqOk \in BOOLEAN :
         LET s == showIfDirty(markAllOff([rx EXCEPT !.pixels = Blank]))
             b == [Elapse(s, BOOT_MS) EXCEPT !.showCalls = 0]
         IN  IF pin = "LOW"
             THEN /\ phase' = "setup"
                  /\ rx' = [b EXCEPT !.inSetupMode = TRUE]
             ELSE /\ phase' = IF radioOk /\ freqOk THEN "loop" ELSE "halt"
                  /\ rx' = b
    /\ UNCHANGED <<pin, ev, obs>>
    /\ UNCHANGED <<su, tx, hs>>

\* handleSetupMode(): it never returns; with the button held past its hold
\* threshold it saves the identifier and restarts the device
handleSetupMode ==
    /\ phase = "setup"
    /\ pin = "LOW"
    /\ phase' = "boot"
    /\ rx' = RxInit
    /\ UNCHANGED <<pin, ev, obs>>
    /\ UNCHANGED <<su, tx, hs>>

\* the button moves while no interrupt is attached
PinChange ==
    /\ phase \in {"boot", "setup"}
    /\ pin' = IF pin = "LOW" THEN "HIGH" ELSE "LOW"
    /\ UNCHANGED <<phase, rx, ev, obs>>
    /\ UNCHANGED <<su, tx, hs>>

\* the button goes down: a falling edge, which runs button_isr
Press ==
    /\ phase = "loop"
    /\ pin = "HIGH"
    /\ pin' = "LOW"
    /\ rx' = button_isr(rx)
    /\ ev' = EvNone
    /\ obs' = [obs EXCEPT !.heldFor = 0,
                          !.accepted = rx.sinceIsr > DEBOUNCE_MS,
                          !.gestures = 0]
    /\ UNCHANGED phase
    /\ UNCHANGED <<su, tx, hs>>

\* the button goes up: no falling edge, no interrupt
Release ==
    /\ phase = "loop"
    /\ pin = "LOW"
    /\ pin' = "HIGH"
    /\ ev' = EvNone
    /\ obs' = [obs EXCEPT !.heldFor = 0]
    /\ UNCHANGED <<phase, rx>>
    /\ UNCHANGED <<su, tx, hs>>

\* time passes
Advance ==
    /\ phase = "loop"
    /\ \E d \in 1 .. MaxStep :
         /\ rx' = Elapse(rx, d)
         /\ obs' = ObsElapse(obs, rx, pin, d)
    /\ ev' = EvNone
    /\ UNCHANGED <<phase, pin>>
    /\ UNCHANGED <<su, tx, hs>>

\* one pass of loop(), all of it at one value of millis().  ev records the
\* packet polled, the mode before the pass, the sequence the no-signal rule
\* and the strip timeout each zeroed (0: none), the button gesture, the
\* animation called, frameDirty as showIfDirty read it and the calls of
\* strip.show()
loop ==
    /\ phase = "loop"
    /\ \E pkt \in Packets :
         LET r == HandleRadio(rx, pkt[1], pkt[2])
             n == NoSignalTimeout(r)
             t == StripTimeout(n)
             b == HandleButton(t, pin)
         IN  \E rnd \in RandomValues(b) :
               LET l == showIfDirty(RunLeds(b, rnd))
               IN  /\ rx' = [l EXCEPT !.showCalls = 0]
                   /\ ev' = [ tick     |-> TRUE,
                              pkt      |-> pkt,
                              from     |-> Mode(rx),
                              noSignal |-> IF NoSignalFires(r)
                                           THEN r.currentSequence ELSE 0,
                              cut      |-> IF StripTimeoutFires(n)
                                           THEN n.currentSequence ELSE 0,
                              gesture  |-> Gesture(t, pin),
                              selected |-> Selected(b),
                              dirty    |-> RunLeds(b, rnd).frameDirty,
                              shows    |-> l.showCalls ]
                   /\ obs' = ObsLoop(obs, rx, l, Gesture(t, pin))
    /\ UNCHANGED <<phase, pin>>
    /\ UNCHANGED <<su, tx, hs>>

Next ==
    \/ setup
    \/ handleSetupMode
    \/ PinChange
    \/ Press
    \/ Release
    \/ Advance
    \/ loop

Spec == Init /\ [][Next]_vars

(* ------------------- boot and setup sub-mode: actions ------------------ *)
BootInit ==
    /\ phase = "boot" /\ rx = RxInit /\ pin = "HIGH"
    /\ ev = EvNone /\ obs = ObsInit
    /\ su \in {SuInit(e, p) : e \in InitialEeprom, p \in {"LOW", "HIGH"}}
    /\ tx = TxInit("HIGH", "HIGH")
    /\ hs = HsInit

\* setup(), all of it: the display (a failure is printed, nothing else),
\* loadPropID, the button read that enters handleSetupMode, the radio
BootSetup ==
    /\ su.pc = "reset"
    /\ \E displayOk, radioOk, freqOk \in BOOLEAN :
         LET l == loadPropID([su EXCEPT !.failed = ~displayOk])
         IN  su' = IF l.pin = "LOW"
                   THEN [l EXCEPT !.pc = "poll",
                                  !.inSetupMode = TRUE,
                                  !.tempPropID = l.propID,
                                  !.sinceStart = BOOT_MS,
                                  !.lastIsPressed = FALSE]
                   ELSE [l EXCEPT !.pc = IF radioOk /\ freqOk
                                         THEN "loop" ELSE "halt",
                                  !.failed = @ \/ ~radioOk \/ ~freqOk]
    /\ UNCHANGED <<mainVars, tx, hs>>

\* the delay at the end of a pass of the while loop and the next pass
SetupPass ==
    /\ su.pc \in {"poll", "armed"}
    /\ \E d \in 1 .. MaxStep :
         su' = setupModePass(
                 [su EXCEPT !.sinceStart = Min(@ + d, SETUP_HOLD_MS + 1),
                            !.taps = 0])
    /\ UNCHANGED <<mainVars, tx, hs>>

\* the button moves; the observer counts the releases
SetupPinChange ==
    /\ su.pc \in {"reset", "poll", "armed"}
    /\ su' = IF su.pin = "HIGH"
             THEN [su EXCEPT !.pin = "LOW", !.inside = su.pc # "reset"]
             ELSE [su EXCEPT !.pin = "HIGH",
                             !.taps = IF su.inside THEN Min(@ + 1, 2) ELSE @]
    /\ UNCHANGED <<mainVars, tx, hs>>

\* the watchdog restarts the device: RAM is lost, the EEPROM is kept
watchdog_reboot ==
    /\ su.pc = "armed"
    /\ su' = [SuInit(su.eeprom, su.pin) EXCEPT !.saved = su.saved]
    /\ UNCHANGED <<mainVars, tx, hs>>

BootNext ==
    \/ BootSetup
    \/ SetupPass
    \/ SetupPinChange
    \/ watchdog_reboot

BootSpec == BootInit /\ [][BootNext]_vars

(* ------------------------- transmitter: actions ------------------------ *)
TxSpecInit ==
    /\ phase = "boot" /\ rx = RxInit /\ pin = "HIGH"
    /\ ev = EvNone /\ obs = ObsInit
    /\ su = SuInit(MIN_PROP_ID, "HIGH")
    /\ tx \in {TxInit(c, o) : c, o \in {"LOW", "HIGH"}}
    /\ hs = HsInit

\* one pass of loop() of the remote
TxLoop ==
    /\ tx' = LET s == [tx EXCEPT !.tick = TRUE, !.cyclePressed = FALSE,
                                 !.offPressed = FALSE, !.sent = <<>>]
             IN  TxHeartbeat(TxHandleOff(TxHandleCycle(s)))
    /\ UNCHANGED <<mainVars, su, hs>>

TxCyclePin ==
    /\ tx' = [tx EXCEPT !.cycle.pin = IF @ = "LOW" THEN "HIGH" ELSE "LOW",
                        !.tick = FALSE]
    /\ UNCHANGED <<mainVars, su, hs>>

TxOffPin ==
    /\ tx' = [tx EXCEPT !.off.pin = IF @ = "LOW" THEN "HIGH" ELSE "LOW",
                        !.tick = FALSE]
    /\ UNCHANGED <<mainVars, su, hs>>

TxAdvance ==
    /\ \E d \in 1 .. MaxStep :
         tx' = [TxElapse(tx, d) EXCEPT !.tick = FALSE]
    /\ UNCHANGED <<mainVars, su, hs>>

TxNext ==
    \/ TxLoop
    \/ TxCyclePin
    \/ TxOffPin
    \/ TxAdvance

TxSpec == TxSpecInit /\ [][TxNext]_vars

(* --------------- the interrupt and step 3 of loop(): actions ----------- *)
\* button_isr runs on the core that runs loop(): while it runs, loop() does
\* not, and no time worth counting passes
HsSpecInit ==
    /\ phase = "boot" /\ rx = RxInit /\ pin = "HIGH"
    /\ ev = EvNone /\ obs = ObsInit
    /\ su = SuInit(MIN_PROP_ID, "HIGH")
    /\ tx = TxInit("HIGH", "HIGH")
    /\ hs = HsInit

\* a falling edge: the interrupt is taken
HsPress ==
    /\ hs.ipc = "idle" /\ hs.pin = "HIGH"
    /\ hs' = [hs EXCEPT !.pin = "LOW", !.ipc = "I93"]
    /\ UNCHANGED <<mainVars, su, tx>>

HsRelease ==
    /\ hs.ipc = "idle" /\ hs.pin = "LOW"
    /\ hs' = [hs EXCEPT !.pin = "HIGH"]
    /\ UNCHANGED <<mainVars, su, tx>>

HsAdvance ==
    /\ hs.ipc = "idle"
    /\ \E d \in 1 .. MaxStep : hs' = HsElapse(hs, d)
    /\ UNCHANGED <<mainVars, su, tx>>

\* the next statement of button_isr
isr_step ==
    /\ hs.ipc # "idle"
    /\ hs' = CASE hs.ipc = "I93" -> IsrTest(hs)
               [] hs.ipc = "I95" -> IsrFlag(hs)
               [] hs.ipc = "I96" -> IsrStamp(hs)
               [] hs.ipc = "I98" -> IsrExit(hs)
    /\ UNCHANGED <<mainVars, su, tx>>

\* the next statement of loop()
loop_step ==
    /\ hs.ipc = "idle"
    /\ hs' = CASE hs.pc = "rest" -> [hs EXCEPT !.pc = "L395"]
               [] hs.pc = "L395" -> LoopTestFlag(hs)
               [] hs.pc = "L397" -> LoopReadPin(hs)
               [] hs.pc = "L398" -> LoopLongHold(hs)
               [] hs.pc = "L404" -> LoopRelease(hs)
    /\ UNCHANGED <<mainVars, su, tx>>

HsNext ==
    \/ HsPress
    \/ HsRelease
    \/ HsAdvance
    \/ isr_step
    \/ loop_step

HsSpec == HsSpecInit /\ [][HsNext]_vars

(* ------------------------------- claims -------------------------------- *)
\* the state right after a pass of loop()
AfterTick == phase = "loop" /\ ev.tick

\* C1: the no-signal rule never zeroes currentSequence while no more than
\* PACKET_TIMEOUT_MS have passed since the last packet; after every pass that
\* runs later than that, currentSequence is 0 (so it stays 0 until a packet
\* arrives); in Ready a stored 2 selects Chase, it stays 2 through every pass
\* without packet, gesture or strip timeout up to the timeout, and past the
\* timeout Off is selected.
C1_NoSignalTimeout ==
    /\ [](AfterTick =>
            /\ (ev.noSignal # 0 => rx.sincePacket > PACKET_TIMEOUT_MS)
            /\ (rx.sincePacket > PACKET_TIMEOUT_MS => rx.currentSequence = 0)
            /\ (Mode(rx) = "Ready" /\ rx.currentSequence = 2
                    => ev.selected = "Chase")
            /\ (Mode(rx) = "Ready" /\ rx.sincePacket > PACKET_TIMEOUT_MS
                    => ev.selected = "Off"))
    /\ [][(/\ phase = "loop" /\ ev'.tick
           /\ rx.currentSequence = 2
           /\ rx.sincePacket <= PACKET_TIMEOUT_MS
           /\ ~ev'.pkt[1] /\ ev'.gesture = "None" /\ ev'.cut = 0)
          => rx'.currentSequence = 2]_vars

\* C1 witness: a pass in Ready in which the no-signal rule zeroed a stored 2
\* and Off was selected
C1_Witness ==
    /\ AfterTick /\ Mode(rx) = "Ready"
    /\ ev.noSignal = 2 /\ rx.currentSequence = 0 /\ ev.selected = "Off"

\* C2: after every pass of loop(), currentSequence has not held one non-zero
\* value for more than STRIP_TIMEOUT_MS, whether or not packets with that
\* value keep arriving.
C2_IdleCutoff ==
    AfterTick /\ obs.litFor > STRIP_TIMEOUT_MS => rx.currentSequence = 0

\* C2 witness: the strip timeout zeroed currentSequence in a pass that
\* received a packet with the very value it zeroed
C2_Witness ==
    /\ AfterTick /\ ev.cut # 0 /\ ev.pkt = <<TRUE, ev.cut>>
    /\ rx.currentSequence = 0 /\ rx.sincePacket = 0

\* C3 as claimed: in the pass after the one in which the strip timeout zeroed
\* currentSequence, a packet with the value that was cut leaves it 0.
C3_StaysOffAfterCutoff ==
    [][(AfterTick /\ ev.cut # 0 /\ ev'.tick /\ ev'.pkt = <<TRUE, ev.cut>>)
       => rx'.currentSequence = 0]_vars

\* C4: Test and Diagnostic never hold together, the main loop never runs in
\* Setup, handleSetupMode runs in Setup alone, and it leaves only through a
\* restart.
C4_ModeExclusive ==
    /\ [](/\ ~(rx.inTestMode /\ rx.inDiagnosticMode)
          /\ (phase = "loop" => ~rx.inSetupMode)
          /\ (phase = "setup" => /\ rx.inSetupMode
                                 /\ ~rx.inTestMode /\ ~rx.inDiagnosticMode))
    /\ [][phase = "setup" => phase' \in {"setup", "boot"}]_vars

\* C4 witness: Diagnostic entered from Test by a long hold
C4_Witness ==
    /\ AfterTick /\ ev.from = "Test" /\ ev.gesture = "LongHoldConfirmed"
    /\ Mode(rx) = "Diagnostic"

C6_DiagnosticToReady ==
    AfterTick /\ ev.from = "Diagnostic" /\ ev.gesture = "ShortPress"
        => Mode(rx) = "Ready"

\* C6 witness: a ShortPress handled in Diagnostic
C6_Witness ==
    /\ AfterTick /\ ev.from = "Diagnostic" /\ ev.gesture = "ShortPress"
    /\ ~rx.inTestMode /\ ~rx.inDiagnosticMode

\* C7 as claimed: every ShortPress leaves currentSequence = 0 and
\* animationStep = 0 when step 3 of loop() is done.
C7_ShortPressZeroes ==
    /\ (AfterTick /\ ev.gesture = "ShortPress" => rx.currentSequence = 0)
    /\ (phase = "loop" =>
          \A pkt \in Packets :
            LET t == AfterTimeouts(rx, pkt[1], pkt[2])
            IN  Gesture(t, pin) = "ShortPress"
                    => HandleButton(t, pin).animationStep = 0)

\* C8: after every pass of loop() that ends in Diagnostic the strip buffer
\* and the LEDs are all off; a packet polled in Diagnostic is stored in
\* currentSequence (unless the strip timeout zeroes it in the same pass).
C8_DiagnosticDark ==
    /\ (AfterTick /\ rx.inDiagnosticMode
            => rx.pixels = Blank /\ rx.leds = Blank)
    /\ (AfterTick /\ ev.from = "Diagnostic" /\ ev.pkt[1] /\ ev.cut = 0
            => rx.currentSequence = ev.pkt[2])

\* C8 witness: a packet changed the stored sequence in Diagnostic and the
\* strip was flushed dark
C8_Witness ==
    /\ AfterTick /\ ev.from = "Diagnostic" /\ rx.inDiagnosticMode
    /\ ev.pkt = <<TRUE, 2>> /\ rx.currentSequence = 2
    /\ ev.shows = 1 /\ rx.leds = Blank

\* C9 as claimed: every frame flushed by a pass of loop() that ends in Test
\* is a Rainbow frame.
C9_TestShowsRainbow ==
    AfterTick /\ rx.inTestMode /\ ev.shows > 0
        => rx.leds = RainbowFrame(rx.animationStep)

\* C10: a pass of loop() calls strip.show() at most once, exactly when
\* frameDirty is set where showIfDirty runs, and ends with frameDirty clear
\* and the LEDs showing the buffer.
C10_Coalescer ==
    AfterTick =>
        /\ ev.shows <= 1
        /\ (ev.shows = 1 <=> ev.dirty)
        /\ ~rx.frameDirty
        /\ rx.leds = rx.pixels

\* C10 witness: a pass that flushed a lit frame
C10_Witness ==
    AfterTick /\ ev.shows = 1 /\ ev.dirty /\ rx.leds # Blank


\* C11 as claimed: a pass of loop() that leaves the strip buffer equal to the
\* frame the LEDs already show calls strip.show() not at all; in particular
\* no pass flushes a dark strip that was dark before it.
C11_NoRedundantFlush ==
    [][(phase = "loop" /\ ev'.tick /\ rx'.pixels = rx.leds)
       => ev'.shows = 0]_vars

\* C12 as claimed: currentSequence is one of 0 .. MAX_SEQUENCE in every state.
C12_SequenceRange ==
    rx.currentSequence \in 0 .. MAX_SEQUENCE

\* C13: in Ready the animation called is the one the table gives for
\* currentSequence; a pass of loop() changes currentSequence only when it
\* polled a packet with another sequenceId, handled a button gesture or fired
\* one of the two timeouts, and no other step changes it; a packet carrying
\* the sequenceId already stored leaves currentSequence and animationStep as
\* they were.
C13_SelectionAndPersistence ==
    /\ [](/\ (AfterTick /\ Mode(rx) = "Ready" =>
                /\ (rx.currentSequence = 0 => ev.selected = "Off")
                /\ (rx.currentSequence = 1 => ev.selected = "Rainbow")
                /\ (rx.currentSequence = 2 => ev.selected = "Chase")
                /\ (rx.currentSequence = 3 => ev.selected = "Wipe")
                /\ (rx.currentSequence = 4 => ev.selected = "Sparkle")
                /\ (rx.currentSequence = 5 => ev.selected = "Cylon"))
          /\ (phase = "loop" =>
                LET r == HandleRadio(rx, TRUE, rx.currentSequence)
                IN  /\ r.currentSequence = rx.currentSequence
                    /\ r.animationStep = rx.animationStep))
    /\ [][rx'.currentSequence # rx.currentSequence =>
            /\ ev'.tick
            /\ \/ ev'.pkt[1] /\ ev'.pkt[2] # rx.currentSequence
               \/ ev'.gesture # "None"
               \/ ev'.noSignal # 0
               \/ ev'.cut # 0]_vars

\* C13 witness: a pass in Ready that polled a packet with the stored
\* sequenceId 3 while Wipe was past its second step, and went on with Wipe
C13_Witness ==
    /\ AfterTick /\ ev.from = "Ready" /\ Mode(rx) = "Ready"
    /\ ev.pkt = <<TRUE, 3>> /\ rx.currentSequence = 3
    /\ ev.selected = "Wipe" /\ rx.animationStep >= 2

\* C17 as claimed: a pass of loop() that handles a ShortPress and polls a
\* packet whose sequenceId is not 0 and not the stored one ends with that
\* sequenceId in currentSequence.
C17_PacketAfterToggle ==
    [][(/\ phase = "loop" /\ ev'.tick
        /\ ev'.gesture = "ShortPress"
        /\ ev'.pkt[1] /\ ev'.pkt[2] # 0
        /\ ev'.pkt[2] # rx.currentSequence)
       => rx'.currentSequence = ev'.pkt[2]]_vars

\* C18 as claimed: when steps 1 to 3 of loop() have changed currentSequence,
\* step 4 starts with animationStep = 0 and the Cylon cursor at pos = 0,
\* dir = +1.
C18_ProgressReset ==
    phase = "loop" =>
        \A pkt \in Packets :
            LET b == HandleButton(AfterTimeouts(rx, pkt[1], pkt[2]), pin)
            IN  b.currentSequence # rx.currentSequence
                    => b.animationStep = 0 /\ b.pos = 0 /\ b.dir = 1

\* a step that is one pass of the while loop of handleSetupMode
IsSetupPass ==
    /\ su.pc \in {"poll", "armed"} /\ su'.pc \in {"poll", "armed"}
    /\ su'.pin = su.pin

\* C14 as claimed: a pass of the while loop that follows exactly one release
\* of the button pressed inside handleSetupMode (one press-and-release, not
\* held to the threshold) has incremented tempPropID by one, 18 wrapping to 1.
C14_EveryTapCounts ==
    [][(IsSetupPass /\ su.taps = 1)
       => su'.tempPropID = IF su.tempPropID = MAX_PROP_ID THEN MIN_PROP_ID
                           ELSE su.tempPropID + 1]_vars

\* C14 amended: inside handleSetupMode tempPropID is in 1 .. 18; a pass that
\* reads the button HIGH after a pass that read it LOW increments tempPropID
\* by one, 18 wrapping to 1, every other pass and every other step leaves
\* it; a pass that reads the button LOW more than SETUP_HOLD_MS after the
\* pass that first read it LOW writes tempPropID, unchanged, to the EEPROM
\* and arms the restart, so no pass leaves such a press unsaved; and from the
\* write on, through the restart, the EEPROM and propID hold that value.
C14_SetupSubMode ==
    /\ [](/\ (su.pc \in {"poll", "armed"}
                => su.tempPropID \in MIN_PROP_ID .. MAX_PROP_ID)
          /\ (su.pc = "poll" /\ su.lastIsPressed
                => su.sinceStart <= SETUP_HOLD_MS)
          /\ (su.did = "save"
                => su.pc = "armed" /\ su.saved = su.tempPropID)
          /\ (su.saved # 0 => su.eeprom = su.saved)
          /\ (su.saved # 0 /\ su.pc # "reset" => su.propID = su.saved))
    /\ [][/\ (IsSetupPass =>
                su'.tempPropID =
                    IF su.lastIsPressed /\ su.pin = "HIGH"
                    THEN (IF su.tempPropID = MAX_PROP_ID THEN MIN_PROP_ID
                          ELSE su.tempPropID + 1)
                    ELSE su.tempPropID)
          /\ (su.pc \in {"poll", "armed"} /\ su'.pin # su.pin
                => su'.tempPropID = su.tempPropID)]_vars

\* C14 witness: the candidate 7 was saved by a hold, the device restarted
\* with the button released and setup() loaded 7
C14_Witness ==
    su.pc = "loop" /\ su.saved = 7 /\ su.propID = 7 /\ su.eeprom = 7

\* C15 as claimed: when display.begin, driver.init or driver.setFrequency
\* has failed, setup() does not return, so loop() never runs.
C15_InitFailureHalts ==
    su.failed => su.pc # "loop"

\* C16 as claimed: a pass of the remote's loop() in which the Cycle button
\* is pressed sends exactly one packet for it, one in which the Off button
\* is pressed sends exactly one packet for it, with sequenceId 0; the last
\* packet of a pass carries currentSequence; and no pass ends with the
\* heartbeat interval elapsed since the last transmission.
C16_EveryPressTransmits ==
    tx.tick =>
        /\ (tx.cyclePressed =>
              Cardinality({i \in DOMAIN tx.sent : tx.sent[i][1] = "cycle"}) = 1)
        /\ (tx.offPressed =>
              /\ Cardinality({i \in DOMAIN tx.sent : tx.sent[i][1] = "off"}) = 1
              /\ \A i \in DOMAIN tx.sent :
                    tx.sent[i][1] = "off" => tx.sent[i][2] = 0)
        /\ (tx.sent # <<>> => tx.sent[Len(tx.sent)][2] = tx.currentSequence)
        /\ tx.sinceHeartbeat < HEARTBEAT_INTERVAL

\* C19: whenever loop() can run (button_isr is not executing) and
\* buttonPressFlag is set, buttonPressTime was written by the press that last
\* set the flag, and it is no older than last_interrupt_time allows.
C19_FreshStamp ==
    hs.ipc = "idle" /\ hs.buttonPressFlag
        => hs.stampFresh /\ hs.sincePress >= hs.sinceIsr

\* C19 witness: button_isr accepted a press between loop()'s test of the flag
\* and its read of buttonPressTime, and loop() is about to read the time of
\* that press
C19_Witness ==
    /\ hs.pc = "L398" /\ hs.ipc = "idle" /\ hs.buttonPressFlag
    /\ hs.unseen /\ hs.stampFresh /\ hs.sincePress = 0

\* C20 as claimed: loop() never clears buttonPressFlag when a press set it
\* after loop() last tested it.
C20_NoPressLost ==
    ~hs.lost

\* C21: whatever packet the next pass of loop() polls, when its step 4 calls
\* animationChase the pixel index animationStep is below NUM_LEDS, and when
\* it calls animationWipe, animationStep is below 2 * NUM_LEDS; the Cylon
\* position is always inside the strip, and at either end of the strip its
\* direction points back into the strip.
C21_PixelWritesInBounds ==
    /\ rx.pos \in 0 .. NUM_LEDS - 1
    /\ (rx.pos = 0 => rx.dir = 1)
    /\ (rx.pos = NUM_LEDS - 1 => rx.dir = -1)
    /\ (phase = "loop" =>
          \A pkt \in Packets :
              LET b == HandleButton(AfterTimeouts(rx, pkt[1], pkt[2]), pin)
              IN  /\ (Selected(b) = "Chase" => b.animationStep < NUM_LEDS)
                  /\ (Selected(b) = "Wipe"
                          => b.animationStep < 2 * NUM_LEDS))

\* C21 witness: Rainbow has run the shared counter up to NUM_LEDS or beyond
\* in Test mode while the stored sequence is Chase
C21_Witness ==
    /\ AfterTick /\ rx.inTestMode /\ ev.selected = "Rainbow"
    /\ rx.currentSequence = 2 /\ rx.animationStep >= NUM_LEDS

=============================================================================
